---- MODULE Spec2Model ----
(***************************************************************************)
(* Model of src/app/page.tsx: the MaterialGenerator component.  The state  *)
(* is the Material tree held by useState, plus the FileReader reads that   *)
(* have been started and whose onload callback has not fired yet.          *)
(*                                                                         *)
(* Array indexes are 0-based as in the source; a TLA+ sequence holds the   *)
(* element of index i at position i + 1.                                   *)
(***************************************************************************)
EXTENDS Integers, Sequences, FiniteSets, TLC

VARIABLES material, pending, last

vars == <<material, pending, last>>

(***************************************************************************)
(* Bounds of the model.                                                    *)
(***************************************************************************)
\* Heaviest material the editing handlers may grow, in units of Weight below.
MaxWeight == 8
\* Largest number of FileReader reads in flight.
MaxPending == 2

(***************************************************************************)
(* Input alphabets: what generateId can return and what the user can type. *)
(***************************************************************************)
\* Math.random().toString(36).substr(2, 9): a random string.
Ids == {"g1", "g2"}
\* e.target.value of the title inputs.
Titles == {"", "X"}
\* e.target.value of the bubble text area.
BubbleTexts == {"", "hi"}
\* e.target.value of a point input.
PointTexts == {"", "a"}
Directions == {"up", "down"}

(***************************************************************************)
(* JavaScript array operations used by the handlers.                       *)
(***************************************************************************)
\* arr.filter((_, i) => i !== index), scanned from index i on.
RECURSIVE filterFrom(_, _, _)
filterFrom(arr, index, i) ==
    IF i >= Len(arr) THEN <<>>
    ELSE IF i # index THEN <<arr[i + 1]>> \o filterFrom(arr, index, i + 1)
    ELSE filterFrom(arr, index, i + 1)

filterNotIndex(arr, index) == filterFrom(arr, index, 0)

\* [a[i], a[j]] = [a[j], a[i]] on a copy of arr.
swap(arr, i, j) == [arr EXCEPT ![i + 1] = arr[j + 1], ![j + 1] = arr[i + 1]]

\* direction === 'up' ? index - 1 : index + 1
targetIndex(index, direction) == IF direction = "up" THEN index - 1 ELSE index + 1

\* newArr[index] = value on a copy of arr, index in range.
setAt(arr, index, value) == [arr EXCEPT ![index + 1] = value]

(***************************************************************************)
(* MaterialGenerator: handlers on the whole material.                      *)
(***************************************************************************)
updateTopic(m, topicIndex, newTopic) ==
    [m EXCEPT !.topics = setAt(m.topics, topicIndex, newTopic)]

addTopic(m, id) ==
    [m EXCEPT !.topics = Append(m.topics, [id |-> id, title |-> "", subTopics |-> <<>>])]

\* Variant: filter((_, i) => i < index), which also drops what follows index.
removeTopic_truncate(m, index) ==
    [m EXCEPT !.topics = SubSeq(m.topics, 1, index)]

removeTopic(m, index) ==
    [m EXCEPT !.topics = filterNotIndex(m.topics, index)]

\* Variant: no bounds check, the target index wraps around.
moveTopic_wrap(m, index, direction) ==
    LET n == Len(m.topics)
        t == (targetIndex(index, direction) + n) % n
    IN  [m EXCEPT !.topics = swap(m.topics, index, t)]

moveTopic(m, index, direction) ==
    LET t == targetIndex(index, direction)
    IN  IF t < 0 \/ t >= Len(m.topics) THEN m
        ELSE [m EXCEPT !.topics = swap(m.topics, index, t)]

(***************************************************************************)
(* TopicEditor: handlers on one topic; the result goes to onChange.        *)
(***************************************************************************)
updateSubTopic(topic, subIndex, newSub) ==
    [topic EXCEPT !.subTopics = setAt(topic.subTopics, subIndex, newSub)]

\* Variant: the new sub-topic is put first.
addSubTopic_prepend(topic, id) ==
    [topic EXCEPT !.subTopics = <<[id |-> id, title |-> "", scenes |-> <<>>]>> \o topic.subTopics]

addSubTopic(topic, id) ==
    [topic EXCEPT !.subTopics = Append(topic.subTopics, [id |-> id, title |-> "", scenes |-> <<>>])]

removeSubTopic(topic, subIndex) ==
    [topic EXCEPT !.subTopics = filterNotIndex(topic.subTopics, subIndex)]

moveSubTopic(topic, subIndex, direction) ==
    LET t == targetIndex(subIndex, direction)
    IN  IF t < 0 \/ t >= Len(topic.subTopics) THEN topic
        ELSE [topic EXCEPT !.subTopics = swap(topic.subTopics, subIndex, t)]

setTopicTitle(topic, value) == [topic EXCEPT !.title = value]

(***************************************************************************)
(* SubTopicEditor: handlers on one sub-topic.                              *)
(***************************************************************************)
\* Variant: every scene is replaced, not the one at sceneIndex alone.
updateScene_fill(subTopic, sceneIndex, newScene) ==
    [subTopic EXCEPT !.scenes = [k \in 1..Len(subTopic.scenes) |-> newScene]]

updateScene(subTopic, sceneIndex, newScene) ==
    [subTopic EXCEPT !.scenes = setAt(subTopic.scenes, sceneIndex, newScene)]

addScene(subTopic, newId) ==
    [subTopic EXCEPT !.scenes = Append(subTopic.scenes,
        [id |-> newId, part |-> newId, title |-> "", type |-> "bubble",
         bubbleText |-> "", points |-> <<>>])]

removeScene(subTopic, sceneIndex) ==
    [subTopic EXCEPT !.scenes = filterNotIndex(subTopic.scenes, sceneIndex)]

\* Variant: two assignments in a row instead of a swap, a[i] = a[t]; a[t] = a[i].
moveScene_overwrite(subTopic, sceneIndex, direction) ==
    LET t == targetIndex(sceneIndex, direction)
    IN  IF t < 0 \/ t >= Len(subTopic.scenes) THEN subTopic
        ELSE [subTopic EXCEPT !.scenes = setAt(subTopic.scenes, sceneIndex, subTopic.scenes[t + 1])]

moveScene(subTopic, sceneIndex, direction) ==
    LET t == targetIndex(sceneIndex, direction)
    IN  IF t < 0 \/ t >= Len(subTopic.scenes) THEN subTopic
        ELSE [subTopic EXCEPT !.scenes = swap(subTopic.scenes, sceneIndex, t)]

setSubTopicTitle(subTopic, value) == [subTopic EXCEPT !.title = value]

(***************************************************************************)
(* SceneEditor: handlers on one scene.                                     *)
(***************************************************************************)
addPoint(scene) == [scene EXCEPT !.points = Append(scene.points, "")]

updatePoint(scene, index, val) == [scene EXCEPT !.points = setAt(scene.points, index, val)]

removePoint(scene, index) == [scene EXCEPT !.points = filterNotIndex(scene.points, index)]

setSceneTitle(scene, value) == [scene EXCEPT !.title = value]

\* Variant: switching the type clears the content of the other type.
setSceneType_clears(scene, type) ==
    IF type = "points" THEN [scene EXCEPT !.type = type, !.bubbleText = ""]
    ELSE [scene EXCEPT !.type = type, !.points = <<>>]

setSceneType(scene, type) == [scene EXCEPT !.type = type]

setBubbleText(scene, value) == [scene EXCEPT !.bubbleText = value]

(***************************************************************************)
(* JavaScript values as JSON.parse produces them, tagged by their type.    *)
(* Undefined is what reading a missing property yields.                    *)
(***************************************************************************)
Undefined == [t |-> "undefined"]
JNull == [t |-> "null"]
JNum(n) == [t |-> "num", n |-> n]
JStr(s) == [t |-> "str", s |-> s]
JArr(a) == [t |-> "arr", a |-> a]
JObj(o) == [t |-> "obj", o |-> o]
EmptyObj == [k \in {} |-> Undefined]

\* v.k throws a TypeError when v is null or undefined.
isNullish(v) == v.t \in {"null", "undefined"}

\* v.k for a v that is not nullish.
get(v, k) == IF v.t = "obj" /\ k \in DOMAIN v.o THEN v.o[k] ELSE Undefined

\* !!v
truthy(v) ==
    CASE v.t = "str" -> v.s # ""
      [] v.t = "num" -> v.n # 0
      [] v.t \in {"arr", "obj"} -> TRUE
      [] OTHER -> FALSE

\* a || b
or(a, b) == IF truthy(a) THEN a ELSE b

\* Array.isArray(v)
isArray(v) == v.t = "arr"

\* The in-memory form of a string or of an array of strings.
RECURSIVE fromJS(_)
fromJS(v) ==
    IF v.t = "arr" THEN [i \in 1..Len(v.a) |-> fromJS(v.a[i])] ELSE v.s

\* The JavaScript value of an in-memory array of strings.
strings(points) == JArr([i \in 1..Len(points) |-> JStr(points[i])])

(***************************************************************************)
(* File contents.  A text is either the serialisation of a JSON value or   *)
(* something JSON.parse rejects.                                           *)
(***************************************************************************)
\* JSON.stringify(value, null, 2) of a value made of objects, arrays and strings.
JSONstringify(value) == [valid |-> TRUE, value |-> value]

\* A text that is not JSON, such as "{not json".
NotJson == [valid |-> FALSE, value |-> JNull]

\* JSON.parse(text) throws a SyntaxError.
parseThrows(text) == ~text.valid

\* JSON.parse(text) when it does not throw.
JSONparse(text) == text.value

(***************************************************************************)
(* downloadJson: the cleanData object that is serialised.                  *)
(***************************************************************************)
\* Variant: part is stripped with id.
exportScene_noPart(sc) ==
    JObj((IF sc.title # "" THEN [title |-> JStr(sc.title)] ELSE EmptyObj)
         @@ (IF sc.type = "bubble" THEN [bubbleText |-> JStr(sc.bubbleText)] ELSE EmptyObj)
         @@ (IF sc.type = "points" THEN [points |-> strings(sc.points)] ELSE EmptyObj))

\* Variant: both content fields are emitted whatever the type.
exportScene_bothFields(sc) ==
    JObj([part |-> JStr(sc.part), bubbleText |-> JStr(sc.bubbleText),
          points |-> strings(sc.points)]
         @@ (IF sc.title # "" THEN [title |-> JStr(sc.title)] ELSE EmptyObj))

exportScene(sc) ==
    JObj([part |-> JStr(sc.part)]
         @@ (IF sc.title # "" THEN [title |-> JStr(sc.title)] ELSE EmptyObj)
         @@ (IF sc.type = "bubble" THEN [bubbleText |-> JStr(sc.bubbleText)] ELSE EmptyObj)
         @@ (IF sc.type = "points" THEN [points |-> strings(sc.points)] ELSE EmptyObj))

exportSubTopic(s) ==
    JObj([title |-> JStr(s.title),
          scenes |-> JArr([k \in 1..Len(s.scenes) |-> exportScene(s.scenes[k])])])

exportTopic(t) ==
    JObj([title |-> JStr(t.title),
          subTopics |-> JArr([j \in 1..Len(t.subTopics) |-> exportSubTopic(t.subTopics[j])])])

cleanData(m) ==
    JObj([topics |-> JArr([i \in 1..Len(m.topics) |-> exportTopic(m.topics[i])])])

\* The text downloadJson offers for download.
downloadJson(m) == JSONstringify(cleanData(m))

(***************************************************************************)
(* reader.onload: validation and re-hydration of the parsed value.         *)
(* generateId is random; gen gives the id drawn for the node at each path  *)
(* <<i>>, <<i, j>>, <<i, j, k>> (positions in the input arrays).           *)
(***************************************************************************)
\* Variant: t.subTopics, without the default for a missing one.
subTopicsOf_noDefault(t) == get(t, "subTopics")

\* t.subTopics || []
subTopicsOf(t) == or(get(t, "subTopics"), JArr(<<>>))

\* s.scenes || []
scenesOf(s) == or(get(s, "scenes"), JArr(<<>>))

\* Reading sc.points of a null scene throws a TypeError.
sceneThrows(sc) == isNullish(sc)

\* s.title of a null s throws; (s.scenes || []).map throws when it is no array.
subTopicThrows(s) ==
    \/ isNullish(s)
    \/ ~isArray(scenesOf(s))
    \/ \E k \in 1..Len(scenesOf(s).a) : sceneThrows(scenesOf(s).a[k])

topicThrows(t) ==
    \/ isNullish(t)
    \/ ~isArray(subTopicsOf(t))
    \/ \E j \in 1..Len(subTopicsOf(t).a) : subTopicThrows(subTopicsOf(t).a[j])

\* The map over json.topics throws.
hydrateThrows(json) ==
    \E i \in 1..Len(get(json, "topics").a) : topicThrows(get(json, "topics").a[i])

\* Variant: every imported scene is of type bubble.
hydrateScene_alwaysBubble(sc, newSceneId) ==
    [id |-> newSceneId,
     part |-> fromJS(or(get(sc, "part"), JStr(newSceneId))),
     title |-> fromJS(or(get(sc, "title"), JStr(""))),
     type |-> "bubble",
     bubbleText |-> fromJS(or(get(sc, "bubbleText"), JStr(""))),
     points |-> fromJS(or(get(sc, "points"), JArr(<<>>)))]

\* Variant: part: sc.part ?? newSceneId, which keeps an empty part.
hydrateScene_nullishPart(sc, newSceneId) ==
    LET hasPoints == isArray(get(sc, "points")) /\ Len(get(sc, "points").a) > 0
        hasBubble == truthy(get(sc, "bubbleText"))
    IN  [id |-> newSceneId,
         part |-> IF isNullish(get(sc, "part")) THEN newSceneId ELSE fromJS(get(sc, "part")),
         title |-> fromJS(or(get(sc, "title"), JStr(""))),
         type |-> IF hasPoints /\ ~hasBubble THEN "points" ELSE "bubble",
         bubbleText |-> fromJS(or(get(sc, "bubbleText"), JStr(""))),
         points |-> fromJS(or(get(sc, "points"), JArr(<<>>)))]

\* Variant: points win over a bubble text, type = hasPoints ? 'points' : 'bubble'.
hydrateScene_pointsWin(sc, newSceneId) ==
    LET hasPoints == isArray(get(sc, "points")) /\ Len(get(sc, "points").a) > 0
    IN  [id |-> newSceneId,
         part |-> fromJS(or(get(sc, "part"), JStr(newSceneId))),
         title |-> fromJS(or(get(sc, "title"), JStr(""))),
         type |-> IF hasPoints THEN "points" ELSE "bubble",
         bubbleText |-> fromJS(or(get(sc, "bubbleText"), JStr(""))),
         points |-> fromJS(or(get(sc, "points"), JArr(<<>>)))]

hydrateScene(sc, newSceneId) ==
    LET hasPoints == isArray(get(sc, "points")) /\ Len(get(sc, "points").a) > 0
        hasBubble == truthy(get(sc, "bubbleText"))
        type == IF hasPoints /\ ~hasBubble THEN "points" ELSE "bubble"
    IN  [id |-> newSceneId,
         part |-> fromJS(or(get(sc, "part"), JStr(newSceneId))),
         title |-> fromJS(or(get(sc, "title"), JStr(""))),
         type |-> type,
         bubbleText |-> fromJS(or(get(sc, "bubbleText"), JStr(""))),
         points |-> fromJS(or(get(sc, "points"), JArr(<<>>)))]

hydrateSubTopic(s, gen, i, j) ==
    [id |-> gen[<<i, j>>],
     title |-> fromJS(or(get(s, "title"), JStr(""))),
     scenes |-> [k \in 1..Len(scenesOf(s).a) |->
                    hydrateScene(scenesOf(s).a[k], gen[<<i, j, k>>])]]

hydrateTopic(t, gen, i) ==
    [id |-> gen[<<i>>],
     title |-> fromJS(or(get(t, "title"), JStr(""))),
     subTopics |-> [j \in 1..Len(subTopicsOf(t).a) |->
                       hydrateSubTopic(subTopicsOf(t).a[j], gen, i, j)]]

hydratedMaterial(json, gen) ==
    [topics |-> [i \in 1..Len(get(json, "topics").a) |->
                    hydrateTopic(get(json, "topics").a[i], gen, i)]]

\* json passes the check of its basic structure.
hasTopicsArray(json) == truthy(get(json, "topics")) /\ isArray(get(json, "topics"))

\* The callback reaches setMaterial(hydratedMaterial).
importSucceeds(text) ==
    /\ ~parseThrows(text)
    /\ ~isNullish(JSONparse(text))
    /\ hasTopicsArray(JSONparse(text))
    /\ ~hydrateThrows(JSONparse(text))

\* The paths of the nodes for which the callback calls generateId.
idSlots(text) ==
    IF ~importSucceeds(text) THEN {}
    ELSE LET T == get(JSONparse(text), "topics").a
             S(i) == subTopicsOf(T[i]).a
             C(i, j) == scenesOf(S(i)[j]).a
         IN  {<<i>> : i \in 1..Len(T)}
             \cup UNION {{<<i, j>> : j \in 1..Len(S(i))} : i \in 1..Len(T)}
             \cup UNION {UNION {{<<i, j, k>> : k \in 1..Len(C(i, j))} : j \in 1..Len(S(i))}
                         : i \in 1..Len(T)}

\* Variant: the hydrated topics are added after the topics of the material.
onload_merge(m, text, gen) ==
    IF ~importSucceeds(text) THEN [material |-> m, alerts |-> 1]
    ELSE [material |-> [topics |-> m.topics \o hydratedMaterial(JSONparse(text), gen).topics],
          alerts |-> 0]

\* Variant: no return after the alert of the structure check, so the map over a
\* missing topics throws and the catch block alerts again.
onload_noReturn(m, text, gen) ==
    IF parseThrows(text) THEN [material |-> m, alerts |-> 1]
    ELSE LET json == JSONparse(text) IN
         IF isNullish(json) THEN [material |-> m, alerts |-> 1]
         ELSE IF ~hasTopicsArray(json) THEN [material |-> m, alerts |-> 2]
         ELSE IF hydrateThrows(json) THEN [material |-> m, alerts |-> 1]
         ELSE [material |-> hydratedMaterial(json, gen), alerts |-> 0]

\* The callback on material m: the material it leaves and the alerts it raises.
onload(m, text, gen) ==
    IF parseThrows(text) THEN [material |-> m, alerts |-> 1]              \* catch
    ELSE LET json == JSONparse(text) IN
         IF isNullish(json) THEN [material |-> m, alerts |-> 1]           \* catch
         ELSE IF ~hasTopicsArray(json) THEN [material |-> m, alerts |-> 1] \* return
         ELSE IF hydrateThrows(json) THEN [material |-> m, alerts |-> 1]  \* catch
         ELSE [material |-> hydratedMaterial(json, gen), alerts |-> 0]

\* Every material the callback can set for a text: none when it raises an alert.
hydrations(text) ==
    IF ~importSucceeds(text) THEN {}
    ELSE {hydratedMaterial(JSONparse(text), gen) : gen \in [idSlots(text) -> Ids]}

(***************************************************************************)
(* The size of a material: two for each node and each point, one for each  *)
(* non-empty title, bubble text and point.                                 *)
(* The editing actions grow no material beyond MaxWeight; an edit that     *)
(* does not grow the material is always possible.                          *)
(***************************************************************************)
btoi(b) == IF b THEN 1 ELSE 0

sceneWeight(sc) ==
    2 + btoi(sc.title # "") + btoi(sc.bubbleText # "")
      + 2 * Len(sc.points) + Cardinality({p \in 1..Len(sc.points) : sc.points[p] # ""})

RECURSIVE scenesWeight(_)
scenesWeight(scenes) ==
    IF scenes = <<>> THEN 0 ELSE sceneWeight(Head(scenes)) + scenesWeight(Tail(scenes))

RECURSIVE subTopicsWeight(_)
subTopicsWeight(subs) ==
    IF subs = <<>> THEN 0
    ELSE 2 + btoi(Head(subs).title # "") + scenesWeight(Head(subs).scenes)
           + subTopicsWeight(Tail(subs))

RECURSIVE topicsWeight(_)
topicsWeight(topics) ==
    IF topics = <<>> THEN 0
    ELSE 2 + btoi(Head(topics).title # "") + subTopicsWeight(Head(topics).subTopics)
           + topicsWeight(Tail(topics))

Weight(m) == topicsWeight(m.topics)

(***************************************************************************)
(* The files the user can pick.                                            *)
(***************************************************************************)
\* {"foo": 1}
FooDoc == JSONstringify(JObj([foo |-> JNum(1)]))

\* One topic "X", one untitled sub-topic, one scene with part "p" and a point.
FileA ==
    JSONstringify(JObj([topics |-> JArr(<<
        JObj([title |-> JStr("X"), subTopics |-> JArr(<<
            JObj([scenes |-> JArr(<<
                JObj([part |-> JStr("p"), points |-> JArr(<<JStr("a")>>)])>>)])>>)])>>)]))

\* One untitled topic, one titled sub-topic, one scene without part whose bubble
\* text and points are both populated.
FileB ==
    JSONstringify(JObj([topics |-> JArr(<<
        JObj([subTopics |-> JArr(<<
            JObj([title |-> JStr("X"), scenes |-> JArr(<<
                JObj([bubbleText |-> JStr("hi"), points |-> JArr(<<JStr("a")>>)])>>)])>>)])>>)]))

CoreFiles == {NotJson, FooDoc, FileA, FileB}

\* The objects with key k absent or bound to one of vals.
optional(k, vals) == {EmptyObj} \cup {k :> v : v \in vals}

\* Scene-like input objects: every field absent, null, empty or populated.
SceneInputs ==
    {JObj(a @@ b @@ c @@ d) :
        a \in optional("part", {JNull, JStr(""), JStr("p")}),
        b \in optional("title", {JStr("X")}),
        c \in optional("bubbleText", {JNull, JStr(""), JStr("hi")}),
        d \in optional("points", {JNull, JArr(<<>>), JArr(<<JStr("a")>>)})}

\* {"topics": [{"subTopics": [{"scenes": [sc]}]}]}
sceneDoc(sc) ==
    JSONstringify(JObj([topics |-> JArr(<<
        JObj([subTopics |-> JArr(<<JObj([scenes |-> JArr(<<sc>>)])>>)])>>)]))

\* {"topics": topics}
topicsDoc(topics) == JSONstringify(JObj([topics |-> topics]))

\* Texts of every top-level and intermediate shape.
ShapeDocs ==
    {NotJson, FooDoc, JSONstringify(JNull), JSONstringify(JNum(5)),
     JSONstringify(JArr(<<>>)), JSONstringify(JObj(EmptyObj)),
     topicsDoc(JNull), topicsDoc(JNum(5)), topicsDoc(JStr("")), topicsDoc(JStr("x")),
     topicsDoc(JObj(EmptyObj)), topicsDoc(JArr(<<>>)),
     topicsDoc(JArr(<<JNull>>)), topicsDoc(JArr(<<JNum(5)>>)),
     topicsDoc(JArr(<<JObj(EmptyObj)>>)),
     topicsDoc(JArr(<<JObj([title |-> JStr("X")]), JObj([title |-> JNull])>>)),
     topicsDoc(JArr(<<JObj([subTopics |-> JNum(5)])>>)),
     topicsDoc(JArr(<<JObj([subTopics |-> JNull])>>)),
     topicsDoc(JArr(<<JObj([subTopics |-> JArr(<<JNull>>)])>>)),
     topicsDoc(JArr(<<JObj([subTopics |-> JArr(<<JObj(EmptyObj)>>)])>>)),
     topicsDoc(JArr(<<JObj([subTopics |-> JArr(<<JObj([title |-> JStr("X")]),
                                                  JObj([scenes |-> JNull])>>)])>>)),
     topicsDoc(JArr(<<JObj([subTopics |-> JArr(<<JObj([scenes |-> JObj(EmptyObj)])>>)])>>)),
     topicsDoc(JArr(<<JObj([subTopics |-> JArr(<<JObj([scenes |-> JArr(<<JNull>>)])>>)])>>))}

WideFiles == ShapeDocs \cup {sceneDoc(sc) : sc \in SceneInputs} \cup {FileA, FileB}

(***************************************************************************)
(* State.  material is the useState value; pending holds the texts of the  *)
(* reads started by handleImport, in the order they were started; last     *)
(* observes the handler that ran last: its name, the indexes it was given  *)
(* (topic, sub-topic, scene, point), its direction or value, the alerts it *)
(* raised and, for a callback, the text it read, its position k among the  *)
(* reads in flight, the number run of callbacks fired in a row, the        *)
(* position prevK of the callback before it in that row and, when it set   *)
(* the material, the handler prevOp that ran just before it.               *)
(***************************************************************************)
Did(op, path, arg) ==
    [op |-> op, path |-> path, arg |-> arg,
     alerts |-> 0, k |-> 0, run |-> 0, prevK |-> 0, prevOp |-> "", text |-> NotJson]

\* What last observes of an editor's handler: all of it, or only that one ran.
Obs(rec, op, path, arg) == IF rec THEN Did(op, path, arg) ELSE Did("edit", <<>>, "")

initialMaterial ==
    [topics |-> <<
        [id |-> "init-topic-1", title |-> "Topic 1", subTopics |-> <<
            [id |-> "init-subtopic-1", title |-> "Sub-topic 1", scenes |-> <<
                [id |-> "init-scene-1", part |-> "init-scene-1",
                 title |-> "Introduction Scene", type |-> "bubble",
                 bubbleText |-> "Welcome to the course.", points |-> <<>>]>>]>>]>>]

Init ==
    /\ material = initialMaterial
    /\ pending = <<>>
    /\ last = Did("init", <<>>, "")

\* The indexes the rendered editors pass to their handlers.
TopicIndexes == 0..(Len(material.topics) - 1)
topicAt(ti) == material.topics[ti + 1]
SubIndexes(ti) == 0..(Len(topicAt(ti).subTopics) - 1)
subAt(ti, si) == topicAt(ti).subTopics[si + 1]
SceneIndexes(ti, si) == 0..(Len(subAt(ti, si).scenes) - 1)
sceneAt(ti, si, ci) == subAt(ti, si).scenes[ci + 1]
PointIndexes(ti, si, ci) == 0..(Len(sceneAt(ti, si, ci).points) - 1)

\* setMaterial(new), within the bound of the model.
Set(new, did) ==
    /\ Weight(new) <= Weight(material) \/ Weight(new) <= MaxWeight
    /\ material' = new
    /\ last' = did
    /\ UNCHANGED pending

\* onChange of the TopicEditor of index ti, of its SubTopicEditor si, of its SceneEditor ci.
topicChanged(ti, newTopic) == updateTopic(material, ti, newTopic)
subChanged(ti, si, newSub) == topicChanged(ti, updateSubTopic(topicAt(ti), si, newSub))
sceneChanged(ti, si, ci, newScene) ==
    subChanged(ti, si, updateScene(subAt(ti, si), ci, newScene))

(***************************************************************************)
(* Topic level.  A remove may be given the index one past the end.         *)
(***************************************************************************)
AddTopic(rec) ==
    \E id \in Ids : Set(addTopic(material, id), Obs(rec, "addTopic", <<>>, ""))

RemoveTopic(rec) ==
    \E index \in 0..Len(material.topics) :
        Set(removeTopic(material, index), Obs(rec, "removeTopic", <<index>>, ""))

MoveTopic(rec) ==
    \E index \in TopicIndexes, d \in Directions :
        Set(moveTopic(material, index, d), Obs(rec, "moveTopic", <<index>>, d))

SetTopicTitle(rec) ==
    \E ti \in TopicIndexes, v \in Titles :
        Set(topicChanged(ti, setTopicTitle(topicAt(ti), v)),
            Obs(rec, "setTopicTitle", <<ti>>, v))

(***************************************************************************)
(* Sub-topic level.                                                        *)
(***************************************************************************)
AddSubTopic(rec) ==
    \E ti \in TopicIndexes, id \in Ids :
        Set(topicChanged(ti, addSubTopic(topicAt(ti), id)),
            Obs(rec, "addSubTopic", <<ti>>, ""))

RemoveSubTopic(rec) ==
    \E ti \in TopicIndexes : \E subIndex \in 0..Len(topicAt(ti).subTopics) :
        Set(topicChanged(ti, removeSubTopic(topicAt(ti), subIndex)),
            Obs(rec, "removeSubTopic", <<ti, subIndex>>, ""))

MoveSubTopic(rec) ==
    \E ti \in TopicIndexes : \E subIndex \in SubIndexes(ti), d \in Directions :
        Set(topicChanged(ti, moveSubTopic(topicAt(ti), subIndex, d)),
            Obs(rec, "moveSubTopic", <<ti, subIndex>>, d))

SetSubTopicTitle(rec) ==
    \E ti \in TopicIndexes : \E si \in SubIndexes(ti), v \in Titles :
        Set(subChanged(ti, si, setSubTopicTitle(subAt(ti, si), v)),
            Obs(rec, "setSubTopicTitle", <<ti, si>>, v))

(***************************************************************************)
(* Scene level.  The bubble text area is rendered for a bubble scene, the  *)
(* points editor for a points scene.                                       *)
(***************************************************************************)
AddScene(rec) ==
    \E ti \in TopicIndexes : \E si \in SubIndexes(ti), newId \in Ids :
        Set(subChanged(ti, si, addScene(subAt(ti, si), newId)),
            Obs(rec, "addScene", <<ti, si>>, ""))

RemoveScene(rec) ==
    \E ti \in TopicIndexes : \E si \in SubIndexes(ti) :
        \E sceneIndex \in 0..Len(subAt(ti, si).scenes) :
            Set(subChanged(ti, si, removeScene(subAt(ti, si), sceneIndex)),
                Obs(rec, "removeScene", <<ti, si, sceneIndex>>, ""))

MoveScene(rec) ==
    \E ti \in TopicIndexes : \E si \in SubIndexes(ti) :
        \E sceneIndex \in SceneIndexes(ti, si), d \in Directions :
            Set(subChanged(ti, si, moveScene(subAt(ti, si), sceneIndex, d)),
                Obs(rec, "moveScene", <<ti, si, sceneIndex>>, d))

SetSceneTitle(rec) ==
    \E ti \in TopicIndexes : \E si \in SubIndexes(ti) :
        \E ci \in SceneIndexes(ti, si), v \in Titles :
            Set(sceneChanged(ti, si, ci, setSceneTitle(sceneAt(ti, si, ci), v)),
                Obs(rec, "setSceneTitle", <<ti, si, ci>>, v))

SetSceneType(rec) ==
    \E ti \in TopicIndexes : \E si \in SubIndexes(ti) :
        \E ci \in SceneIndexes(ti, si), type \in {"bubble", "points"} :
            Set(sceneChanged(ti, si, ci, setSceneType(sceneAt(ti, si, ci), type)),
                Obs(rec, "setSceneType", <<ti, si, ci>>, type))

SetBubbleText(rec) ==
    \E ti \in TopicIndexes : \E si \in SubIndexes(ti) :
        \E ci \in SceneIndexes(ti, si), v \in BubbleTexts :
            /\ sceneAt(ti, si, ci).type = "bubble"
            /\ Set(sceneChanged(ti, si, ci, setBubbleText(sceneAt(ti, si, ci), v)),
                   Obs(rec, "setBubbleText", <<ti, si, ci>>, v))

AddPoint(rec) ==
    \E ti \in TopicIndexes : \E si \in SubIndexes(ti) : \E ci \in SceneIndexes(ti, si) :
        /\ sceneAt(ti, si, ci).type = "points"
        /\ Set(sceneChanged(ti, si, ci, addPoint(sceneAt(ti, si, ci))),
               Obs(rec, "addPoint", <<ti, si, ci>>, ""))

UpdatePoint(rec) ==
    \E ti \in TopicIndexes : \E si \in SubIndexes(ti) : \E ci \in SceneIndexes(ti, si) :
        \E index \in PointIndexes(ti, si, ci), v \in PointTexts :
            /\ sceneAt(ti, si, ci).type = "points"
            /\ Set(sceneChanged(ti, si, ci, updatePoint(sceneAt(ti, si, ci), index, v)),
                   Obs(rec, "updatePoint", <<ti, si, ci, index>>, v))

RemovePoint(rec) ==
    \E ti \in TopicIndexes : \E si \in SubIndexes(ti) : \E ci \in SceneIndexes(ti, si) :
        \E index \in PointIndexes(ti, si, ci) :
            /\ sceneAt(ti, si, ci).type = "points"
            /\ Set(sceneChanged(ti, si, ci, removePoint(sceneAt(ti, si, ci), index)),
                   Obs(rec, "removePoint", <<ti, si, ci, index>>, ""))

(***************************************************************************)
(* Import.  handleImport starts a read and returns; the callback fires     *)
(* later, in any order among the reads in flight.                          *)
(***************************************************************************)
\* handleImport with a file of the given texts chosen, at most limit reads in flight.
HandleImport(texts, limit) ==
    \E text \in texts :
        /\ Len(pending) < limit
        /\ pending' = Append(pending, text)
        /\ last' = [Did("handleImport", <<>>, "") EXCEPT !.text = text]
        /\ UNCHANGED material

\* handleImport when the change event carries no file: if (!file) return.
HandleImportNoFile ==
    /\ last' = Did("handleImportNoFile", <<>>, "")
    /\ UNCHANGED <<material, pending>>

\* Variant: a callback is ignored when another callback has just set the material.
OnLoad_firstWins ==
    \E k \in 1..Len(pending) : \E gen \in [idSlots(pending[k]) -> Ids] :
        LET r == onload(material, pending[k], gen) IN
        /\ material' = IF last.op = "onload" /\ last.alerts = 0 THEN material ELSE r.material
        /\ pending' = filterNotIndex(pending, k - 1)
        /\ last' = [Did("onload", <<>>, "") EXCEPT
                       !.alerts = r.alerts, !.text = pending[k], !.k = k,
                       !.run = IF last.op = "onload" THEN last.run + 1 ELSE 1,
                       !.prevK = IF last.op = "onload" THEN last.k ELSE 0,
                       !.prevOp = IF r.alerts = 0 THEN last.op ELSE ""]

\* reader.onload of the k-th read in flight.
OnLoad ==
    \E k \in 1..Len(pending) : \E gen \in [idSlots(pending[k]) -> Ids] :
        LET r == onload(material, pending[k], gen) IN
        /\ material' = r.material
        /\ pending' = filterNotIndex(pending, k - 1)
        /\ last' = [Did("onload", <<>>, "") EXCEPT
                       !.alerts = r.alerts, !.text = pending[k], !.k = k,
                       !.run = IF last.op = "onload" THEN last.run + 1 ELSE 1,
                       !.prevK = IF last.op = "onload" THEN last.k ELSE 0,
                       !.prevOp = IF r.alerts = 0 THEN last.op ELSE ""]

\* Any handler of the editors.
Edit(rec) ==
    \/ AddTopic(rec) \/ RemoveTopic(rec) \/ MoveTopic(rec) \/ SetTopicTitle(rec)
    \/ AddSubTopic(rec) \/ RemoveSubTopic(rec) \/ MoveSubTopic(rec) \/ SetSubTopicTitle(rec)
    \/ AddScene(rec) \/ RemoveScene(rec) \/ MoveScene(rec)
    \/ SetSceneTitle(rec) \/ SetSceneType(rec) \/ SetBubbleText(rec)
    \/ AddPoint(rec) \/ UpdatePoint(rec) \/ RemovePoint(rec)

\* The whole component, one read in flight at a time; last observes the imports.
Next ==
    \/ Edit(FALSE)
    \/ HandleImport(CoreFiles, 1)
    \/ OnLoad

Spec == Init /\ [][Next]_vars

\* The editors alone, observed in full.
NextEdit == Edit(TRUE)

SpecEdit == Init /\ [][NextEdit]_vars

\* The editors and the imports of the files that hydrate, one read at a time.
ValidFiles == {text \in CoreFiles : importSucceeds(text)}

NextValid ==
    \/ Edit(FALSE)
    \/ HandleImport(ValidFiles, 1)
    \/ OnLoad

SpecValid == Init /\ [][NextValid]_vars

\* Overlapping imports: up to MaxPending reads in flight, no edit in between.
NextOverlap ==
    \/ HandleImport(CoreFiles, MaxPending)
    \/ OnLoad

SpecOverlap == Init /\ [][NextOverlap]_vars

\* The import path alone, over texts of every shape, one read at a time.
NextImport ==
    \/ HandleImport(WideFiles, 1)
    \/ HandleImportNoFile
    \/ OnLoad

SpecImport == Init /\ [][NextImport]_vars

(***************************************************************************)
(* Properties.                                                             *)
(***************************************************************************)

\* The neighbour a move exchanges with, and the positions of a sequence.
Neighbour(index, d) == IF d = "up" THEN index - 1 ELSE index + 1
Swapped(old, new, i, t) ==
    /\ Len(new) = Len(old)
    /\ new[i + 1] = old[t + 1]
    /\ new[t + 1] = old[i + 1]
    /\ \A p \in 1..Len(old) : p \notin {i + 1, t + 1} => new[p] = old[p]
Appended(old, new, x) ==
    /\ Len(new) = Len(old) + 1
    /\ \A p \in 1..Len(old) : new[p] = old[p]
    /\ new[Len(new)] = x
Removed(old, new, index) ==
    IF index >= 0 /\ index < Len(old)
    THEN /\ Len(new) = Len(old) - 1
         /\ \A p \in 1..index : new[p] = old[p]
         /\ \A p \in (index + 1)..(Len(old) - 1) : new[p] = old[p + 1]
    ELSE new = old

\* A text that parses to a document without an array under topics at its top level.
LacksTopicsArray(text) ==
    /\ text.valid
    /\ \/ text.value.t # "obj"
       \/ "topics" \notin DOMAIN text.value.o
       \/ text.value.o.topics.t # "arr"

\* C1: a callback whose text is not valid JSON, or whose document has no topics
\* array at its top level, leaves the material as it was and raises one alert.
C1_FailedImportKeepsMaterial ==
    [][(last'.op = "onload" /\ (~last'.text.valid \/ LacksTopicsArray(last'.text)))
        => (material' = material /\ last'.alerts = 1)]_vars

\* A document without a topics array was read over a material set by an earlier import.
C1_Witness ==
    /\ last.op = "onload"
    /\ LacksTopicsArray(last.text)
    /\ last.alerts = 1
    /\ material # initialMaterial

\* The scenes of two materials of the same shape carry the same part, position by position.
SameParts(a, b) ==
    /\ Len(a.topics) = Len(b.topics)
    /\ \A i \in 1..Len(a.topics) :
        /\ Len(a.topics[i].subTopics) = Len(b.topics[i].subTopics)
        /\ \A j \in 1..Len(a.topics[i].subTopics) :
            /\ Len(a.topics[i].subTopics[j].scenes) = Len(b.topics[i].subTopics[j].scenes)
            /\ \A k \in 1..Len(a.topics[i].subTopics[j].scenes) :
                a.topics[i].subTopics[j].scenes[k].part
                    = b.topics[i].subTopics[j].scenes[k].part

\* C2: importing the export of the material succeeds and gives every scene, at
\* the same position, the part it had, whatever ids the import generates.
C2_RoundTripPart ==
    LET text == downloadJson(material) IN
    /\ text.valid
    /\ \A gen \in [idSlots(text) -> Ids] :
        LET r == onload(material, text, gen) IN
        r.alerts = 0 /\ SameParts(material, r.material)

\* An imported scene whose part differs from its id, in a material edited afterwards.
C2_Witness ==
    /\ last.op = "edit"
    /\ \E ti \in TopicIndexes : \E si \in SubIndexes(ti) : \E ci \in SceneIndexes(ti, si) :
        /\ sceneAt(ti, si, ci).part = "p"
        /\ sceneAt(ti, si, ci).id # sceneAt(ti, si, ci).part
        /\ sceneAt(ti, si, ci).title # ""

\* The title of an exported object: absent when the node's title is empty, the
\* node's title otherwise.
TitleAsClaimed(title, out) ==
    IF title = "" THEN "title" \notin DOMAIN out.o
    ELSE "title" \in DOMAIN out.o /\ out.o.title = JStr(title)

\* C3: the export of a topic, a sub-topic or a scene leaves title out when it
\* is empty and carries it otherwise.
C3_TitleOmittedWhenEmpty ==
    \A ti \in TopicIndexes :
        /\ TitleAsClaimed(topicAt(ti).title, exportTopic(topicAt(ti)))
        /\ \A si \in SubIndexes(ti) :
            /\ TitleAsClaimed(subAt(ti, si).title, exportSubTopic(subAt(ti, si)))
            /\ \A ci \in SceneIndexes(ti, si) :
                TitleAsClaimed(sceneAt(ti, si, ci).title, exportScene(sceneAt(ti, si, ci)))

\* The scene object a text holds at a position, for a text that imports.
inputScene(text, i, j, k) ==
    LET t == text.value.o.topics.a[i]
        s == t.o.subTopics.a[j]
    IN  s.o.scenes.a[k]
PointsPopulated(sc) ==
    /\ "points" \in DOMAIN sc.o
    /\ sc.o.points.t = "arr"
    /\ Len(sc.o.points.a) >= 1
BubbleTextEmpty(sc) ==
    \/ "bubbleText" \notin DOMAIN sc.o
    \/ sc.o.bubbleText = JNull
    \/ sc.o.bubbleText = JStr("")

\* C4: a scene set by an import is of type points exactly when its input has
\* at least one point and no bubble text (absent, null or empty), and of type
\* bubble otherwise.
C4_TypeInference ==
    (last.op = "onload" /\ last.alerts = 0) =>
        \A ti \in TopicIndexes : \A si \in SubIndexes(ti) : \A ci \in SceneIndexes(ti, si) :
            LET sc == inputScene(last.text, ti + 1, si + 1, ci + 1) IN
            sceneAt(ti, si, ci).type
                = IF PointsPopulated(sc) /\ BubbleTextEmpty(sc) THEN "points" ELSE "bubble"

\* An imported scene of type points whose input carries an empty bubble text.
C4_Witness ==
    /\ last.op = "onload"
    /\ last.alerts = 0
    /\ \E ti \in TopicIndexes : \E si \in SubIndexes(ti) : \E ci \in SceneIndexes(ti, si) :
        LET sc == inputScene(last.text, ti + 1, si + 1, ci + 1) IN
        /\ "bubbleText" \in DOMAIN sc.o
        /\ sc.o.bubbleText = JStr("")
        /\ sceneAt(ti, si, ci).type = "points"

\* C5: in the exported document a scene has part, bubbleText and no points
\* when of type bubble, points and no bubbleText when of type points, and
\* neither id nor type; a topic and a sub-topic have no id.
C5_ExportShape ==
    LET out == cleanData(material) IN
    /\ Len(out.o.topics.a) = Len(material.topics)
    /\ \A ti \in TopicIndexes :
        LET t == out.o.topics.a[ti + 1] IN
        /\ "id" \notin DOMAIN t.o
        /\ Len(t.o.subTopics.a) = Len(topicAt(ti).subTopics)
        /\ \A si \in SubIndexes(ti) :
            LET s == t.o.subTopics.a[si + 1] IN
            /\ "id" \notin DOMAIN s.o
            /\ Len(s.o.scenes.a) = Len(subAt(ti, si).scenes)
            /\ \A ci \in SceneIndexes(ti, si) :
                LET keys == DOMAIN s.o.scenes.a[ci + 1].o IN
                /\ "part" \in keys
                /\ "id" \notin keys
                /\ "type" \notin keys
                /\ ("bubbleText" \in keys) = (sceneAt(ti, si, ci).type = "bubble")
                /\ ("points" \in keys) = (sceneAt(ti, si, ci).type = "points")

\* A scene of type points that still holds a bubble text, after an edit.
C5_Witness ==
    /\ last.op = "edit"
    /\ \E ti \in TopicIndexes : \E si \in SubIndexes(ti) : \E ci \in SceneIndexes(ti, si) :
        /\ sceneAt(ti, si, ci).type = "points"
        /\ sceneAt(ti, si, ci).bubbleText # ""

\* C6: moving the first element up or the last element down leaves the
\* material as it is, for topics, sub-topics and scenes.
C6_MoveAtBoundary ==
    /\ material.topics # <<>> =>
        /\ moveTopic(material, 0, "up") = material
        /\ moveTopic(material, Len(material.topics) - 1, "down") = material
    /\ \A ti \in TopicIndexes :
        /\ topicAt(ti).subTopics # <<>> =>
            /\ topicChanged(ti, moveSubTopic(topicAt(ti), 0, "up")) = material
            /\ topicChanged(ti, moveSubTopic(topicAt(ti),
                     Len(topicAt(ti).subTopics) - 1, "down")) = material
        /\ \A si \in SubIndexes(ti) :
            subAt(ti, si).scenes # <<>> =>
                /\ subChanged(ti, si, moveScene(subAt(ti, si), 0, "up")) = material
                /\ subChanged(ti, si, moveScene(subAt(ti, si),
                         Len(subAt(ti, si).scenes) - 1, "down")) = material

\* The first of several topics was moved up.
C6_Witness ==
    /\ last.op = "moveTopic"
    /\ last.path = <<0>>
    /\ last.arg = "up"
    /\ Len(material.topics) >= 2
    /\ material.topics[1] # material.topics[2]

\* C7: a move towards a neighbour inside the collection exchanges the element
\* and that neighbour and keeps every other element and the length.
C7_MoveIsSwap ==
    \A d \in Directions :
        /\ \A index \in TopicIndexes :
            LET t == Neighbour(index, d) IN
            t \in TopicIndexes =>
                Swapped(material.topics, moveTopic(material, index, d).topics, index, t)
        /\ \A ti \in TopicIndexes :
            /\ \A index \in SubIndexes(ti) :
                LET t == Neighbour(index, d) IN
                t \in SubIndexes(ti) =>
                    Swapped(topicAt(ti).subTopics,
                            moveSubTopic(topicAt(ti), index, d).subTopics, index, t)
            /\ \A si \in SubIndexes(ti) : \A index \in SceneIndexes(ti, si) :
                LET t == Neighbour(index, d) IN
                t \in SceneIndexes(ti, si) =>
                    Swapped(subAt(ti, si).scenes,
                            moveScene(subAt(ti, si), index, d).scenes, index, t)

\* The first of three topics was moved down past a topic that differs from it.
C7_Witness ==
    /\ last.op = "moveTopic"
    /\ last.path = <<0>>
    /\ last.arg = "down"
    /\ Len(material.topics) = 3
    /\ material.topics[1] # material.topics[2]

\* C8 as stated: after callbacks fired in a row, the material is a hydration
\* of the text of the callback that fired last.
C8_LastCallbackWins ==
    (last.op = "onload" /\ last.run >= 2) => material \in hydrations(last.text)

\* C8: a callback that fires after another sets the material to a hydration
\* of its own text when it raises no alert, and leaves the material as the
\* earlier callback left it when it raises one, whatever the order in which
\* the reads were started.
C8_LastSuccessfulCallbackWins ==
    [][(last'.op = "onload" /\ last'.run >= 2) =>
        IF last'.alerts = 0 THEN material' \in hydrations(last'.text)
        ELSE material' = material]_vars

\* The read started first fired after the read started second and set the material.
C8_Witness ==
    /\ last.op = "onload"
    /\ last.run = 2
    /\ last.prevK = 2
    /\ last.k = 1
    /\ last.alerts = 0
    /\ material \in hydrations(FileA)

\* The defaults of a new scene of a given id.
NewScene(id) ==
    [id |-> id, part |-> id, title |-> "", type |-> "bubble", bubbleText |-> "",
     points |-> <<>>]

\* C9: an add puts one new element after the existing ones, which it keeps in
\* order: a topic with an empty title and no sub-topics, a sub-topic with an
\* empty title and no scenes, a scene of type bubble with empty fields and
\* its own id as part.
C9_AddAppends ==
    \A id \in Ids :
        /\ Appended(material.topics, addTopic(material, id).topics,
                    [id |-> id, title |-> "", subTopics |-> <<>>])
        /\ \A ti \in TopicIndexes :
            /\ Appended(topicAt(ti).subTopics, addSubTopic(topicAt(ti), id).subTopics,
                        [id |-> id, title |-> "", scenes |-> <<>>])
            /\ \A si \in SubIndexes(ti) :
                Appended(subAt(ti, si).scenes, addScene(subAt(ti, si), id).scenes,
                         NewScene(id))

\* A scene was added after an existing one.
C9_Witness ==
    /\ last.op = "addScene"
    /\ LET scenes == subAt(last.path[1], last.path[2]).scenes IN
        /\ Len(scenes) >= 2
        /\ scenes[Len(scenes)] = NewScene(scenes[Len(scenes)].id)
        /\ scenes[1] # scenes[Len(scenes)]

\* C10: a remove drops the element at the index and keeps the others in
\* order; an index outside the collection changes nothing; no remove raises
\* an alert.
C10_RemoveFilters ==
    /\ last.op \in {"removeTopic", "removeSubTopic", "removeScene"} => last.alerts = 0
    /\ \A index \in (0 - 1)..(Len(material.topics) + 1) :
        Removed(material.topics, removeTopic(material, index).topics, index)
    /\ \A ti \in TopicIndexes :
        /\ \A index \in (0 - 1)..(Len(topicAt(ti).subTopics) + 1) :
            Removed(topicAt(ti).subTopics,
                    removeSubTopic(topicAt(ti), index).subTopics, index)
        /\ \A si \in SubIndexes(ti) :
            \A index \in (0 - 1)..(Len(subAt(ti, si).scenes) + 1) :
                Removed(subAt(ti, si).scenes,
                        removeScene(subAt(ti, si), index).scenes, index)

\* The first of several topics was removed and the others are left.
C10_Witness ==
    /\ last.op = "removeTopic"
    /\ last.path = <<0>>
    /\ Len(material.topics) >= 2
    /\ material.topics[1] # material.topics[2]

\* C11 as stated: a scene set by an import has the part of its input whenever
\* the input has a part field, whatever its value, and its own id as part
\* only when the input has none.
C11_PartKeptWhenPresent ==
    (last.op = "onload" /\ last.alerts = 0) =>
        \A ti \in TopicIndexes : \A si \in SubIndexes(ti) : \A ci \in SceneIndexes(ti, si) :
            LET sc == inputScene(last.text, ti + 1, si + 1, ci + 1) IN
            IF "part" \in DOMAIN sc.o
            THEN JStr(sceneAt(ti, si, ci).part) = sc.o.part
            ELSE sceneAt(ti, si, ci).part = sceneAt(ti, si, ci).id

\* C11: a scene set by an import has the part of its input when the input has
\* a non-empty part, and its own id as part when the input's part is absent,
\* null or empty.
C11_PartKeptWhenNonEmpty ==
    (last.op = "onload" /\ last.alerts = 0) =>
        \A ti \in TopicIndexes : \A si \in SubIndexes(ti) : \A ci \in SceneIndexes(ti, si) :
            LET sc == inputScene(last.text, ti + 1, si + 1, ci + 1) IN
            IF "part" \in DOMAIN sc.o /\ sc.o.part \notin {JNull, JStr("")}
            THEN JStr(sceneAt(ti, si, ci).part) = sc.o.part
            ELSE sceneAt(ti, si, ci).part = sceneAt(ti, si, ci).id

\* An imported scene whose input carries an empty part and whose part is its id.
C11_Witness ==
    /\ last.op = "onload"
    /\ last.alerts = 0
    /\ \E ti \in TopicIndexes : \E si \in SubIndexes(ti) : \E ci \in SceneIndexes(ti, si) :
        LET sc == inputScene(last.text, ti + 1, si + 1, ci + 1) IN
        /\ "part" \in DOMAIN sc.o
        /\ sc.o.part = JStr("")
        /\ sceneAt(ti, si, ci).part = sceneAt(ti, si, ci).id

\* Two materials with as many topics, sub-topics and scenes at every position,
\* whose scenes are related by rel position by position.
SameShapeAnd(a, b, rel(_, _)) ==
    /\ Len(a.topics) = Len(b.topics)
    /\ \A i \in 1..Len(a.topics) :
        /\ Len(a.topics[i].subTopics) = Len(b.topics[i].subTopics)
        /\ \A j \in 1..Len(a.topics[i].subTopics) :
            /\ Len(a.topics[i].subTopics[j].scenes) = Len(b.topics[i].subTopics[j].scenes)
            /\ \A k \in 1..Len(a.topics[i].subTopics[j].scenes) :
                rel(a.topics[i].subTopics[j].scenes[k], b.topics[i].subTopics[j].scenes[k])

\* The content field the type of a scene makes active.
activeContent(sc) == IF sc.type = "bubble" THEN <<sc.bubbleText>> ELSE sc.points

\* The scene has the type and the active content it had.
ContentKept(before, after) ==
    /\ after.type = before.type
    /\ activeContent(after) = activeContent(before)

\* As ContentKept, but a scene of type points with no point comes back as an
\* empty scene of type bubble.
ContentKeptOrEmptied(before, after) ==
    IF before.type = "points" /\ before.points = <<>>
    THEN after.type = "bubble" /\ after.bubbleText = "" /\ after.points = <<>>
    ELSE ContentKept(before, after)

\* C12 as stated: importing the export of the material gives a material of
\* the same shape whose scenes have the type and the active content they had.
C12_RoundTripContent ==
    LET text == downloadJson(material) IN
    \A gen \in [idSlots(text) -> Ids] :
        LET r == onload(material, text, gen) IN
        r.alerts = 0 /\ SameShapeAnd(material, r.material, ContentKept)

\* C12: importing the export of the material gives a material of the same
\* shape whose scenes have the type and the active content they had, except
\* that a scene of type points without points comes back of type bubble, with
\* an empty bubble text and no points.
C12_RoundTripContentOrEmptied ==
    LET text == downloadJson(material) IN
    \A gen \in [idSlots(text) -> Ids] :
        LET r == onload(material, text, gen) IN
        r.alerts = 0 /\ SameShapeAnd(material, r.material, ContentKeptOrEmptied)

\* An edited material with a scene of type points that has a point, and whose
\* dormant bubble text is not empty.
C12_Witness ==
    /\ last.op = "edit"
    /\ \E ti \in TopicIndexes : \E si \in SubIndexes(ti) : \E ci \in SceneIndexes(ti, si) :
        /\ sceneAt(ti, si, ci).type = "points"
        /\ sceneAt(ti, si, ci).points = <<"a">>
        /\ sceneAt(ti, si, ci).bubbleText = "hi"

\* What an input object holds under a key: whether it has the key, its string
\* (or "" for none), its elements (or none for no array).
Has(v, k) == v.t = "obj" /\ k \in DOMAIN v.o
StringAt(v, k) == IF Has(v, k) /\ v.o[k].t = "str" THEN v.o[k].s ELSE ""
ItemsAt(v, k) == IF Has(v, k) /\ v.o[k].t = "arr" THEN v.o[k].a ELSE <<>>

\* A text that parses to a document with an array under topics.
HasTopicsArray(text) == text.valid /\ ~LacksTopicsArray(text)

\* The value under the key is absent, falsy or an array.
ListOrNothing(v, k) == ~Has(v, k) \/ ~truthy(v.o[k]) \/ v.o[k].t = "arr"

\* No topic, sub-topic or scene of the document is null, and each subTopics
\* and scenes is absent, falsy or an array.
Regular(text) ==
    \A i \in 1..Len(ItemsAt(text.value, "topics")) :
        LET t == ItemsAt(text.value, "topics")[i] IN
        /\ t # JNull
        /\ ListOrNothing(t, "subTopics")
        /\ \A j \in 1..Len(ItemsAt(t, "subTopics")) :
            LET sub == ItemsAt(t, "subTopics")[j] IN
            /\ sub # JNull
            /\ ListOrNothing(sub, "scenes")
            /\ \A k \in 1..Len(ItemsAt(sub, "scenes")) : ItemsAt(sub, "scenes")[k] # JNull

\* The material has one node for each element of the document, in order, with
\* "" for a missing title or bubbleText and no element for a missing
\* subTopics, scenes or points.
Defaulted(m, text) ==
    LET T == ItemsAt(text.value, "topics") IN
    /\ Len(m.topics) = Len(T)
    /\ \A i \in 1..Len(T) :
        LET S == ItemsAt(T[i], "subTopics") IN
        /\ m.topics[i].title = StringAt(T[i], "title")
        /\ Len(m.topics[i].subTopics) = Len(S)
        /\ \A j \in 1..Len(S) :
            LET C == ItemsAt(S[j], "scenes")
                sub == m.topics[i].subTopics[j]
            IN  /\ sub.title = StringAt(S[j], "title")
                /\ Len(sub.scenes) = Len(C)
                /\ \A k \in 1..Len(C) :
                    /\ sub.scenes[k].title = StringAt(C[k], "title")
                    /\ sub.scenes[k].bubbleText = StringAt(C[k], "bubbleText")
                    /\ Len(sub.scenes[k].points) = Len(ItemsAt(C[k], "points"))
                    /\ \A q \in 1..Len(sub.scenes[k].points) :
                        JStr(sub.scenes[k].points[q]) = ItemsAt(C[k], "points")[q]

\* C13 as stated: a callback whose document has a topics array raises no
\* alert and sets the material to the nodes of the document with the defaults
\* for what is missing.
C13_TopicsArraySuffices ==
    (last.op = "onload" /\ HasTopicsArray(last.text)) =>
        (last.alerts = 0 /\ Defaulted(material, last.text))

\* C13: a callback whose document has a topics array raises no alert and sets
\* the material to the nodes of the document, with the defaults for what is
\* missing, when no topic, sub-topic or scene of the document is null and
\* each subTopics and scenes is absent, falsy or an array; otherwise it
\* raises one alert and leaves the material as it was.
C13_RegularDocumentSuffices ==
    [][(last'.op = "onload" /\ HasTopicsArray(last'.text)) =>
        IF Regular(last'.text)
        THEN last'.alerts = 0 /\ Defaulted(material', last'.text)
        ELSE last'.alerts = 1 /\ material' = material]_vars

\* An imported topic whose input is an object with neither title nor subTopics.
C13_Witness ==
    /\ last.op = "onload"
    /\ last.alerts = 0
    /\ \E ti \in TopicIndexes :
        LET t == ItemsAt(last.text.value, "topics")[ti + 1] IN
        /\ t.t = "obj"
        /\ ~Has(t, "title")
        /\ ~Has(t, "subTopics")
        /\ topicAt(ti).title = ""
        /\ topicAt(ti).subTopics = <<>>

\* C14: after a callback that raises no alert, the material is a hydration of
\* the text of that callback and holds nothing of the material before it,
\* edits made since the read was started included.
C14_ImportReplacesAll ==
    (last.op = "onload" /\ last.alerts = 0) =>
        /\ material \in hydrations(last.text)
        /\ Defaulted(material, last.text)

\* A callback set the material just after an edit made while its read was in flight.
C14_Witness ==
    /\ last.op = "onload"
    /\ last.prevOp = "edit"
    /\ last.alerts = 0
    /\ material \in hydrations(FileA)

\* The handlers that act inside one topic, inside one sub-topic, inside one scene.
InTopic == {"setTopicTitle", "addSubTopic", "removeSubTopic", "moveSubTopic"}
InSubTopic == {"setSubTopicTitle", "addScene", "removeScene", "moveScene"}
InScene == {"setSceneTitle", "setSceneType", "setBubbleText",
            "addPoint", "updatePoint", "removePoint"}

\* new has the length of old and its elements at every position but p.
OthersKept(old, new, p) ==
    /\ Len(new) = Len(old)
    /\ \A q \in 1..Len(old) : q # p => new[q] = old[q]

\* C15: a handler that acts inside a topic keeps the number of topics and
\* every other topic; one that acts inside a sub-topic keeps, too, the number
\* of sub-topics of its topic and every other sub-topic of it; one that acts
\* inside a scene keeps, too, the number of scenes of its sub-topic and every
\* other scene of it.
C15_EditsAreLocal ==
    [][LET op == last'.op
           ti == last'.path[1] + 1
           si == last'.path[2] + 1
           ci == last'.path[3] + 1
       IN  /\ op \in InTopic \cup InSubTopic \cup InScene =>
                OthersKept(material.topics, material'.topics, ti)
           /\ op \in InSubTopic \cup InScene =>
                OthersKept(material.topics[ti].subTopics,
                           material'.topics[ti].subTopics, si)
           /\ op \in InScene =>
                OthersKept(material.topics[ti].subTopics[si].scenes,
                           material'.topics[ti].subTopics[si].scenes, ci)]_vars

\* The first of two scenes that differ was switched to points.
C15_Witness ==
    /\ last.op = "setSceneType"
    /\ last.path = <<0, 0, 0>>
    /\ last.arg = "points"
    /\ Len(subAt(0, 0).scenes) = 2
    /\ sceneAt(0, 0, 0).type = "points"
    /\ sceneAt(0, 0, 1).type = "bubble"

\* The type that is not the scene's.
otherType(sc) == IF sc.type = "bubble" THEN "points" ELSE "bubble"

\* C16: setting the type of a scene changes its type and no other field, so
\* that switching the type and switching back gives the scene again; a scene
\* set by an import holds the bubble text and the points of its input
\* whatever its type.
C16_DormantContentKept ==
    /\ \A ti \in TopicIndexes : \A si \in SubIndexes(ti) : \A ci \in SceneIndexes(ti, si) :
        LET sc == sceneAt(ti, si, ci) IN
        /\ \A type \in {"bubble", "points"} :
            LET set == setSceneType(sc, type) IN
            /\ set.type = type
            /\ set.id = sc.id
            /\ set.part = sc.part
            /\ set.title = sc.title
            /\ set.bubbleText = sc.bubbleText
            /\ set.points = sc.points
        /\ setSceneType(setSceneType(sc, otherType(sc)), sc.type) = sc
    /\ (last.op = "onload" /\ last.alerts = 0) =>
        \A ti \in TopicIndexes : \A si \in SubIndexes(ti) : \A ci \in SceneIndexes(ti, si) :
            LET in == inputScene(last.text, ti + 1, si + 1, ci + 1) IN
            /\ sceneAt(ti, si, ci).bubbleText = StringAt(in, "bubbleText")
            /\ strings(sceneAt(ti, si, ci).points).a = ItemsAt(in, "points")

\* The scene of the initial material, switched to points, still has its bubble text.
C16_Witness ==
    /\ last.op = "edit"
    /\ \E ti \in TopicIndexes : \E si \in SubIndexes(ti) : \E ci \in SceneIndexes(ti, si) :
        /\ sceneAt(ti, si, ci).id = "init-scene-1"
        /\ sceneAt(ti, si, ci).type = "points"
        /\ sceneAt(ti, si, ci).bubbleText = "Welcome to the course."

====
